---------------------------- MODULE Spec2Model ----------------------------
(***************************************************************************)
(* A model of qmassa's terminal dashboard state logic:                     *)
(*   - the chart alignment of DrmClientScreen (drm_client_screen.rs),      *)
(*   - the client-detail screen: identity lookup and the chart-category    *)
(*     selector ClientStatsState (drm_client_screen.rs),                   *)
(*   - the device tab selector QmDevicesTabState (qmapp.rs),               *)
(*   - the poll-render-input loop QmApp::do_run with its JSON sink         *)
(*     (qmapp.rs),                                                         *)
(*   - the x axis of the charts and the client list pane's content size    *)
(*     (drm_client_screen.rs, qmapp.rs).                                   *)
(* Six specifications share the module: SpecChart, SpecAxis, SpecClient,   *)
(* SpecTabs, SpecClis and Spec (the loop).  Each one drives its own group  *)
(* of variables and leaves the other groups at their idle values.          *)
(***************************************************************************)
EXTENDS Integers, Sequences, FiniteSets, TLC

VARIABLES
    \* ---- chart alignment (DrmClientScreen::render_chart and callees)
    tstamps,        \* model.data.timestamps(): the shared axis, in ms
    cli,            \* the AppDataClientStats being charted
    datasets,       \* what the last render_chart handed to Chart::new
    x_axis,         \* the x axis of the last chart: [bounds, labels]
    \* ---- client-detail screen (DrmClientScreen)
    sel,            \* DrmClientScreen.sel: the captured DrmClientSelected
    stats_state,    \* DrmClientScreen.stats_state: [sel, last_op]
    model_data,     \* model.data: device name -> its client list
    screen,         \* what the last draw did: [what, client, category]
    keys_since,     \* category keys handled since the last draw that found the client
    resolved,       \* category shown by the last draw that found the client
    eng_always,     \* the selected client's engine mapping has never been empty
    key_run,        \* the category keys handled so far: [op, n]
    \* ---- device tab selector (QmDevicesTabState) and the loop (QmApp)
    tab_state,      \* QmApp.tab_state: <<>> (None) or <<[devs, sel]>>
    tab_ops,        \* the most recent Tab/BackTab presses, each with the index before it
    exit,           \* QmApp.exit
    pc,             \* position of QmApp::do_run
    nr,             \* do_run's iteration counter
    json_file,      \* the sink file: <<>> (None) or <<[bytes, pos]>>
    ticks,          \* snapshots produced by data.refresh(), in tick order
    appended,       \* snapshots whose sink append has completed, in order
    args,           \* QmArgs: [dev_slot, to_json, nr_iterations]
    devices,        \* data.devices(): the devices of the latest snapshot
    shown,          \* what QmApp::draw rendered last
    trace,          \* what do_run has done so far: [draws, quit, failed_at]
    clock,          \* time since the latest refresh began, and between the last two
    \* ---- client list pane (QmApp::render_drm_clients)
    dinfo,          \* the device drawn: [clis_stats], its clients in listed order
    visible_area,   \* the pane's viewport: [width, height]
    clis_view       \* what the last render built: [rows, size]

chartVars  == <<tstamps, cli, datasets, x_axis>>
clientVars == <<sel, stats_state, model_data, screen, keys_since, resolved,
                eng_always, key_run>>
tabVars    == <<tab_state, tab_ops>>
loopVars   == <<exit, pc, nr, json_file, ticks, appended, args, devices, shown,
                trace, clock>>
listVars   == <<dinfo, visible_area, clis_view>>
vars       == <<chartVars, clientVars, tabVars, loopVars, listVars>>

\* ------------------------------------------------------------------------
\* Bounds of the model
\* ------------------------------------------------------------------------
MaxN     == 4      \* longest timestamp axis charted
MaxKeys  == 4      \* category key presses counted per run
MaxDevs  == 3      \* longest device list
MaxIter  == 3      \* loop iterations explored when the budget is unbounded
MaxClis  == 2      \* longest client list drawn in the list pane

RECURSIVE SeqsUpTo(_, _)
SeqsUpTo(S, n) ==
    IF n = 0 THEN {<<>>}
    ELSE LET shorter == SeqsUpTo(S, n - 1)
         IN  shorter \cup {Append(s, x) : s \in {t \in shorter : Len(t) = n - 1}, x \in S}

Max(a, b) == IF a >= b THEN a ELSE b

\* ========================================================================
\* Chart alignment: drm_client_screen.rs
\* ========================================================================

\* `*ts as f64 / 1000.0`: milliseconds to seconds.  The quotient is kept
\* exactly, as <<whole seconds, remaining milliseconds>>.
Secs(ts) == <<ts \div 1000, ts % 1000>>

\* render_chart, lines 540-543: the x values, one per timestamp.
XVals(ts) == [i \in 1..Len(ts) |-> Secs(ts[i])]

\* `v as f64` of an integer sample, and the literal 0.0.
AsF64(v) == v
ZeroF64 == AsF64(0)

\* The index at which the real samples start (`idx`), as each render_*_chart
\* computes it: nr_vals - len when the history is shorter, else 0.
PadIdx(nr_vals, len) == IF len < nr_vals THEN nr_vals - len ELSE 0

\* render_cpu_chart, lines 491-503 (a plausible slip: samples first, padding last).
CpuVals_LeftAligned(x_vals, cpu_usage) ==
    LET nr_vals == Len(x_vals)
        len     == Len(cpu_usage)
    IN  [i \in 1..nr_vals |->
            IF i <= len THEN <<x_vals[i], cpu_usage[i]>> ELSE <<x_vals[i], ZeroF64>>]

CpuVals(x_vals, cpu_usage) ==
    LET nr_vals == Len(x_vals)
        idx     == PadIdx(nr_vals, Len(cpu_usage))
        pad     == [i \in 1..idx |-> <<x_vals[i], ZeroF64>>]
        real    == [k \in 1..(nr_vals - idx) |-> <<x_vals[idx + k], cpu_usage[k]>>]
    IN  pad \o real

\* render_engines_chart, lines 436-452: one series per engine.  The series
\* are kept by engine name (the code walks the names in sorted order).
EngVals(x_vals, eng_stats) ==
    [en \in DOMAIN eng_stats |->
        LET nr_vals == Len(x_vals)
            usage   == eng_stats[en]
            idx     == PadIdx(nr_vals, Len(usage))
            pad     == [i \in 1..idx |-> <<x_vals[i], ZeroF64>>]
            real    == [k \in 1..(nr_vals - idx) |-> <<x_vals[idx + k], usage[k]>>]
        IN  pad \o real]

\* render_meminfo_chart, lines 352-381: four series from one history.
MemSeries(x_vals, mem_info, fld) ==
    LET nr_vals == Len(x_vals)
        idx     == PadIdx(nr_vals, Len(mem_info))
        pad     == [i \in 1..idx |-> <<x_vals[i], ZeroF64>>]
        real    == [k \in 1..(nr_vals - idx) |->
                       <<x_vals[idx + k], AsF64(mem_info[k][fld])>>]
    IN  pad \o real

MemVals(x_vals, mem_info) ==
    [fld \in {"smem_rss", "smem_used", "vram_rss", "vram_used"} |->
        MemSeries(x_vals, mem_info, fld)]

\* render_meminfo_chart, lines 358-359: `miny = 0` and the start of maxy.
MinY == 0
MaxYFloor == 1024

\* Lines 379-380: what one charted sample does to maxy (variant: the VRAM
\* value is not looked at).
RaiseMaxY_SmemOnly(maxy, mi) == Max(maxy, mi.smem_used)

RaiseMaxY(maxy, mi) == Max(Max(maxy, mi.smem_used), mi.vram_used)

\* Lines 373-381: maxy after the samples mem_info[k..n], in order.
RECURSIVE MemMaxY(_, _, _, _)
MemMaxY(mem_info, k, n, maxy) ==
    IF k > n THEN maxy
    ELSE MemMaxY(mem_info, k + 1, n, RaiseMaxY(maxy, mem_info[k]))

\* Line 409: y_bounds = [miny as f64, maxy as f64].
MemYBounds(x_vals, mem_info) ==
    LET nr_vals == Len(x_vals)
        idx     == PadIdx(nr_vals, Len(mem_info))
    IN  <<AsF64(MinY), AsF64(MemMaxY(mem_info, 1, nr_vals - idx, MaxYFloor))>>

\* render_engines_chart, line 467, and render_cpu_chart, line 513:
\* [0.0, 100.0] percent, in the tenths the usage samples are kept in.
PercentBounds == <<ZeroF64, AsF64(100 * 10)>>

CLIENT_STATS_MEMINFO == 0
CLIENT_STATS_ENGINES == 1
CLIENT_STATS_CPU     == 2
CLIENT_STATS_TOTAL   == 3

CLIENT_STATS_OP_NEXT == 0
CLIENT_STATS_OP_PREV == 1

\* render_chart, lines 570-584: the chart of the selected category.
ChartOf(st_sel, ts, c) ==
    LET x_vals == XVals(ts)
    IN  CASE st_sel = CLIENT_STATS_MEMINFO ->
                [kind |-> "meminfo", series |-> MemVals(x_vals, c.mem_info),
                 y_bounds |-> MemYBounds(x_vals, c.mem_info)]
          [] st_sel = CLIENT_STATS_ENGINES ->
                [kind |-> "engines", series |-> EngVals(x_vals, c.eng_stats),
                 y_bounds |-> PercentBounds]
          [] st_sel = CLIENT_STATS_CPU ->
                [kind |-> "cpu", series |-> [cpu |-> CpuVals(x_vals, c.cpu_usage)],
                 y_bounds |-> PercentBounds]
          [] OTHER -> [kind |-> "error", series |-> <<>>, y_bounds |-> <<>>]

\* f64 addition of two values kept as <<whole seconds, milliseconds>>.
AddF64(a, b) == <<a[1] + b[1] + ((a[2] + b[2]) \div 1000), (a[2] + b[2]) % 1000>>

\* format!("{:.1}", x): the text of x with one decimal, kept as the format
\* applied to the value.
Fmt1(x) == [fmt |-> "{:.1}", val |-> x]

\* The x axis both chart renderers build for two or more x values: bounds
\* from the first to the last, a label at the first, at x_vals[xvlen / 2]
\* and, from three values on, at the last.
XAxisMany(x_vals) ==
    LET xvlen == Len(x_vals)
    IN  [bounds |-> <<x_vals[1], x_vals[xvlen]>>,
         labels |-> <<Fmt1(x_vals[1]), Fmt1(x_vals[(xvlen \div 2) + 1])>>
                    \o (IF xvlen >= 3 THEN <<Fmt1(x_vals[xvlen])>> ELSE <<>>)]

\* The x axis for one x value: `width` seconds from it, a label at each bound.
XAxisOne(x_vals, width) ==
    LET x_bounds == <<x_vals[1], AddF64(x_vals[1], width)>>
    IN  [bounds |-> x_bounds, labels |-> <<Fmt1(x_bounds[1]), Fmt1(x_bounds[2])>>]

\* render_chart, lines 544-562: the x axis of a client chart.
ClientXAxis(ts, a) ==
    LET x_vals == XVals(ts)
    IN  IF Len(x_vals) = 1
        THEN LET int_secs == Secs(a.ms_interval) IN XAxisOne(x_vals, int_secs)
        ELSE XAxisMany(x_vals)

\* The literal 2.0 of QmApp::render_dev_stats, line 260.
TwoSecs == Secs(2000)

\* QmApp::render_dev_stats, lines 253-275: the x axis of the device
\* frequency chart.
DevXAxis(ts) ==
    LET x_vals == XVals(ts)
    IN  IF Len(x_vals) = 1
        THEN XAxisOne(x_vals, TwoSecs)
        ELSE XAxisMany(x_vals)

\* ClientStatsState::new, lines 85-91.
ClientStatsState_new ==
    [sel |-> CLIENT_STATS_MEMINFO, last_op |-> CLIENT_STATS_OP_NEXT]

\* Before any render_chart: no chart.
NoChart == [kind |-> "none", series |-> <<>>, y_bounds |-> <<>>]

\* A client with no samples, a selection of nothing, no category, no arguments.
ZeroClient ==
    [pid |-> 0, drm_minor |-> 0, client_id |-> 0,
     mem_info |-> <<>>, eng_stats |-> <<>>, cpu_usage |-> <<>>]
NoCategory == CLIENT_STATS_TOTAL
NoScreen == [what |-> "none", client |-> ZeroClient, category |-> NoCategory]
NoKeys == [op |-> "none", n |-> 0]
NoSelection == [pci_dev |-> "", pid |-> 0, drm_minor |-> 0, client_id |-> 0]
NoArgs == [dev_slot |-> <<>>, to_json |-> FALSE, nr_iterations |-> 0,
           ms_interval |-> 1500, all_clients |-> FALSE]
NoAxis == [chart |-> "none", bounds |-> <<>>, labels |-> <<>>]
NoTrace == [draws |-> 0, quit |-> FALSE, failed_at |-> ""]
NoClock == [since |-> 0, gap |-> <<>>]
NoView == [rows |-> <<>>, size |-> [width |-> 0, height |-> 0]]
NoArea == [width |-> 0, height |-> 0]

\* ------------------------------------------------------------------------
\* Idle values: what a specification gives the groups it does not drive.
\* ------------------------------------------------------------------------
IdleChart ==
    /\ tstamps = <<>>
    /\ cli = ZeroClient
    /\ datasets = NoChart
    /\ x_axis = NoAxis

IdleClient ==
    /\ sel = NoSelection
    /\ stats_state = ClientStatsState_new
    /\ model_data = <<>>
    /\ screen = NoScreen
    /\ keys_since = <<>>
    /\ resolved = NoCategory
    /\ eng_always = TRUE
    /\ key_run = NoKeys

IdleList ==
    /\ dinfo = [clis_stats |-> <<>>]
    /\ visible_area = NoArea
    /\ clis_view = NoView

IdleTabs ==
    /\ tab_state = <<>>
    /\ tab_ops = <<>>

IdleLoop ==
    /\ exit = FALSE
    /\ pc = "idle"
    /\ nr = 0
    /\ json_file = <<>>
    /\ ticks = <<>>
    /\ appended = <<>>
    /\ args = NoArgs
    /\ trace = NoTrace
    /\ clock = NoClock
    /\ devices = <<>>
    /\ shown = [what |-> "none", dev |-> ""]

\* ========================================================================
\* SpecChart: the chart functions applied to every axis and history
\* ========================================================================

\* Tick timestamps in ms; an axis is a strictly increasing run of them.
Stamps == {0, 750, 1500, 2250, 4000, 5500}

Axes ==
    {t \in SeqsUpTo(Stamps, MaxN) :
        /\ Len(t) >= 1
        /\ \A i \in 1..(Len(t) - 1) : t[i] < t[i + 1]}

\* CPU and engine usage samples, in tenths of a percent (425 is 42.5).
UsageSamples == {0, 425}

\* Memory samples (bytes).
MemSamples ==
    { [smem_rss |-> 0, smem_used |-> 0, vram_rss |-> 0, vram_used |-> 0],
      [smem_rss |-> 512, smem_used |-> 2048, vram_rss |-> 1024, vram_used |-> 4096] }

ZeroMem == [smem_rss |-> 0, smem_used |-> 0, vram_rss |-> 0, vram_used |-> 0]

EngineNames == {"ccs", "rcs"}

Zeros(n, z) == [i \in 1..n |-> z]

\* The clients charted against an axis of length n: every history is at
\* most n long.  One history at a time takes every value; the others hold
\* zero samples.
ChartClients(n) ==
    LET mk(mi, es, cu) ==
            [pid |-> 1, drm_minor |-> 0, client_id |-> 1,
             mem_info |-> mi, eng_stats |-> es, cpu_usage |-> cu]
    IN  {mk(Zeros(Len(cu), ZeroMem), <<>>, cu) : cu \in SeqsUpTo(UsageSamples, n)}
        \cup {mk(mi, <<>>, Zeros(Len(mi), 0)) : mi \in SeqsUpTo(MemSamples, n)}
        \cup UNION {{mk(<<ZeroMem>>, es, <<0>>) :
                        es \in [E -> SeqsUpTo(UsageSamples, n)]} :
                    E \in SUBSET EngineNames}

ChartInit ==
    /\ tstamps \in Axes
    /\ cli \in ChartClients(Len(tstamps))
    /\ datasets = NoChart
    /\ x_axis = NoAxis
    /\ sel = NoSelection
    /\ stats_state \in {[sel |-> s, last_op |-> CLIENT_STATS_OP_NEXT] :
                            s \in 0..(CLIENT_STATS_TOTAL - 1)}
    /\ model_data = <<>>
    /\ screen = NoScreen
    /\ keys_since = <<>>
    /\ resolved = NoCategory
    /\ eng_always = TRUE
    /\ key_run = NoKeys
    /\ IdleTabs
    /\ IdleLoop
    /\ IdleList

\* DrmClientScreen::render_chart on the axis and the client.
RenderChart ==
    /\ datasets.kind = "none"
    /\ datasets' = ChartOf(stats_state.sel, tstamps, cli)
    /\ x_axis' = [chart |-> "client"] @@ ClientXAxis(tstamps, args)
    /\ UNCHANGED <<tstamps, cli, clientVars, tabVars, loopVars, listVars>>

ChartNext == RenderChart

SpecChart == ChartInit /\ [][ChartNext]_vars

\* The history a series of the chart is drawn from, and the values plotted.
SeriesHistory(name) ==
    CASE datasets.kind = "cpu"     -> cli.cpu_usage
      [] datasets.kind = "engines" -> cli.eng_stats[name]
      [] datasets.kind = "meminfo" -> [k \in 1..Len(cli.mem_info) |-> cli.mem_info[k][name]]

\* C1: every charted series (memory, per-engine usage, CPU) of a history H of
\* length L against an axis T of length N >= L has exactly N points; the
\* first N-L are (T[i] in seconds, 0) and the last L are (T[i] in seconds,
\* H[i-(N-L)]): the real samples come last, in their original order.
C1_Alignment ==
    (datasets.kind # "none") =>
        \A name \in DOMAIN datasets.series :
            LET S == datasets.series[name]
                H == SeriesHistory(name)
                N == Len(tstamps)
                L == Len(H)
            IN  /\ L <= N
                /\ Len(S) = N
                /\ \A i \in 1..(N - L) :
                        S[i] = <<<<tstamps[i] \div 1000, tstamps[i] % 1000>>, 0>>
                /\ \A i \in (N - L + 1)..N :
                        S[i] = <<<<tstamps[i] \div 1000, tstamps[i] % 1000>>, H[i - (N - L)]>>

\* C1 witness: one CPU sample of 42.5 against a longer axis is charted as
\* leading zero points followed by the sample at the last timestamp.
C1_Witness ==
    /\ datasets.kind = "cpu"
    /\ Len(tstamps) = MaxN
    /\ cli.cpu_usage = <<425>>
    /\ datasets.series["cpu"][MaxN] = <<Secs(tstamps[MaxN]), 425>>
    /\ \A i \in 1..(MaxN - 1) : datasets.series["cpu"][i][2] = 0

\* The 'used' values of the samples the memory chart plots: the window.
UsedInWindow ==
    LET n == Len(tstamps) - PadIdx(Len(tstamps), Len(cli.mem_info))
    IN  UNION {{cli.mem_info[k].smem_used, cli.mem_info[k].vram_used} : k \in 1..n}

\* C21: the client memory chart has y-min 0 and y-max the largest of 1024
\* and every smem_used and vram_used of the samples in the window: y-max is
\* at least 1024 and at least every plotted 'used' value, and the zero
\* points padded in front do not change it.
C21_MemYBounds ==
    (datasets.kind = "meminfo") =>
        LET ymin == datasets.y_bounds[1]
            ymax == datasets.y_bounds[2]
        IN  /\ ymin = 0
            /\ ymax \in UsedInWindow \cup {1024}
            /\ ymax >= 1024
            /\ \A u \in UsedInWindow : ymax >= u
            /\ \A i \in 1..Len(tstamps) :
                    /\ ymax >= datasets.series["smem_used"][i][2]
                    /\ ymax >= datasets.series["vram_used"][i][2]
            /\ ymax = MemYBounds(XVals(SubSeq(tstamps, 1, Len(cli.mem_info))),
                                  cli.mem_info)[2]

\* C21 witness: one sample with 2048 and 4096 bytes used behind zero
\* padding on the longest axis: y-max is 4096.
C21_Witness ==
    /\ datasets.kind = "meminfo"
    /\ Len(tstamps) = MaxN
    /\ Len(cli.mem_info) = 1
    /\ cli.mem_info[1].vram_used = 4096
    /\ datasets.series["vram_used"][1][2] = 0
    /\ datasets.y_bounds = <<0, 4096>>

\* ------------------------------------------------------------------------
\* SpecAxis: the x axis of the client charts and of the device frequency
\* chart, on every axis and tick interval
\* ------------------------------------------------------------------------

\* --ms-interval values, in ms.
Intervals == {500, 1500, 2000}

AxisInit ==
    /\ tstamps \in Axes
    /\ cli = [ZeroClient EXCEPT !.pid = 1, !.client_id = 1]
    /\ datasets = NoChart
    /\ x_axis = NoAxis
    /\ sel = NoSelection
    /\ stats_state \in {[sel |-> s, last_op |-> CLIENT_STATS_OP_NEXT] :
                            s \in 0..(CLIENT_STATS_TOTAL - 1)}
    /\ model_data = <<>>
    /\ screen = NoScreen
    /\ keys_since = <<>>
    /\ resolved = NoCategory
    /\ eng_always = TRUE
    /\ key_run = NoKeys
    /\ IdleTabs
    /\ exit = FALSE
    /\ pc = "idle"
    /\ nr = 0
    /\ json_file = <<>>
    /\ ticks = <<>>
    /\ appended = <<>>
    /\ args \in {[NoArgs EXCEPT !.ms_interval = ms] : ms \in Intervals}
    /\ devices = <<>>
    /\ shown = [what |-> "none", dev |-> ""]
    /\ trace = NoTrace
    /\ clock = NoClock
    /\ IdleList

\* QmApp::render_dev_stats on the axis: the x axis of the frequency chart.
RenderDevStats ==
    /\ x_axis' = [chart |-> "device"] @@ DevXAxis(tstamps)
    /\ UNCHANGED <<tstamps, cli, datasets, clientVars, tabVars, loopVars, listVars>>

AxisNext ==
    \/ RenderChart
    \/ RenderDevStats

SpecAxis == AxisInit /\ [][AxisNext]_vars

\* C19: every chart drawn against an axis of N timestamps, a client chart or
\* the device frequency chart, has for N = 1 the x bounds [t0, t0 + tick
\* interval] and exactly two labels, and for N >= 2 the bounds [t0, t(N-1)],
\* a label at t0, one at t(N div 2) and a third at t(N-1) exactly when N >= 3.
C19_XAxis ==
    (x_axis.chart # "none") =>
        LET N    == Len(tstamps)
            t(i) == <<tstamps[i + 1] \div 1000, tstamps[i + 1] % 1000>>
            end  == tstamps[1] + args.ms_interval
        IN  IF N = 1
            THEN /\ x_axis.bounds = <<t(0), <<end \div 1000, end % 1000>>>>
                 /\ Len(x_axis.labels) = 2
            ELSE /\ x_axis.bounds = <<t(0), t(N - 1)>>
                 /\ Len(x_axis.labels) = (IF N >= 3 THEN 3 ELSE 2)
                 /\ x_axis.labels[1].val = t(0)
                 /\ x_axis.labels[2].val = t(N \div 2)
                 /\ N >= 3 => x_axis.labels[3].val = t(N - 1)

\* The same statement for the client charts alone.
ClientXAxisOnly == (x_axis.chart = "client") => C19_XAxis

\* ========================================================================
\* Client-detail screen: drm_client_screen.rs
\* ========================================================================

\* ClientStatsState::next, lines 63-67 (variant: the modulus is one short).
StatsNext_ShortCycle(st) ==
    [sel |-> (st.sel + 1) % (CLIENT_STATS_TOTAL - 1), last_op |-> CLIENT_STATS_OP_NEXT]

StatsNext(st) ==
    [sel |-> (st.sel + 1) % CLIENT_STATS_TOTAL, last_op |-> CLIENT_STATS_OP_NEXT]

\* ClientStatsState::previous, lines 69-74.
StatsPrevious(st) ==
    [sel |-> IF st.sel = 0 THEN CLIENT_STATS_TOTAL - 1 ELSE st.sel - 1,
     last_op |-> CLIENT_STATS_OP_PREV]

\* ClientStatsState::repeat_op, lines 76-83 (variants: the repeated step is
\* always next; the repeated step is the opposite of the last one).
StatsRepeatOp_AlwaysNext(st) == StatsNext(st)

StatsRepeatOp_Opposite(st) ==
    IF st.last_op = CLIENT_STATS_OP_NEXT THEN StatsPrevious(st) ELSE StatsNext(st)

StatsRepeatOp(st) ==
    IF st.last_op = CLIENT_STATS_OP_NEXT THEN StatsNext(st) ELSE StatsPrevious(st)

\* model.data.get_device(name): Some(device) or None, as <<device>> or <<>>.
GetDevice(data, name) ==
    IF name \in DOMAIN data THEN <<data[name]>> ELSE <<>>

\* draw, lines 149-151: the test a client of the list must pass
\* (variant: the process id alone decides).
ClientMatches_PidOnly(c, s) ==
    c.pid = s.pid

ClientMatches(c, s) ==
    /\ c.pid = s.pid
    /\ c.drm_minor = s.drm_minor
    /\ c.client_id = s.client_id


\* draw, lines 147-154: the scan keeps the last client that matches.
\* Some(client) or None, as <<client>> or <<>>.
FindClient(clis_stats, s) ==
    LET hits == {i \in 1..Len(clis_stats) : ClientMatches(clis_stats[i], s)}
    IN  IF hits = {} THEN <<>>
        ELSE <<clis_stats[CHOOSE i \in hits : \A j \in hits : j <= i]>>

\* draw, lines 174-180: skip the engines category when no engines are known
\* (variants: the correction is left out; the correction is made in every
\* category).
SkipEngines_Never(st, c) == st

SkipEngines_WheneverEmpty(st, c) ==
    IF DOMAIN c.eng_stats = {} THEN StatsRepeatOp(st) ELSE st

SkipEngines(st, c) ==
    IF st.sel = CLIENT_STATS_ENGINES /\ DOMAIN c.eng_stats = {}
    THEN StatsRepeatOp(st)
    ELSE st

\* DrmClientScreen::draw, lines 110-193, as a function of the screen's
\* state and the model: what it renders and the state it leaves.
\*   panic  - get_device(..).unwrap() on None (line 145)
\*   notice - the client is not in the device's list (lines 155-168)
\*   charts - command, stats table and the chart of the category
Draw(s, st, data, ts, a) ==
    LET di == GetDevice(data, s.pci_dev)
    IN  IF Len(di) = 0
        THEN [what |-> "panic", client |-> ZeroClient, stats_state |-> st,
              datasets |-> NoChart, x_axis |-> NoAxis]
        ELSE LET sel_cli == FindClient(di[1].clis_stats, s)
             IN  IF Len(sel_cli) = 0
                 THEN [what |-> "notice", client |-> ZeroClient, stats_state |-> st,
                       datasets |-> NoChart, x_axis |-> NoAxis]
                 ELSE LET st2 == SkipEngines(st, sel_cli[1])
                      IN  [what |-> "charts", client |-> sel_cli[1],
                           stats_state |-> st2,
                           datasets |-> ChartOf(st2.sel, ts, sel_cli[1]),
                           x_axis |-> [chart |-> "client"] @@ ClientXAxis(ts, a)]

\* handle_key_event, lines 198-216: the category keys.  The scroll keys
\* (Right, Left) act on cmd_sv_state only and every other key does nothing;
\* none of them touches the category selector or the selection.
HandleKey(st, key) ==
    CASE key \in {">", "."} -> StatsNext(st)
      [] key \in {"<", ","} -> StatsPrevious(st)
      [] OTHER -> st

\* ------------------------------------------------------------------------
\* SpecClient: draws, key presses and snapshot changes in any order
\* ------------------------------------------------------------------------

\* The screen is opened on a client of device d0.
SelectedClient == [pci_dev |-> "d0", pid |-> 1, drm_minor |-> 0, client_id |-> 1]

\* The one-sample histories every listed client has.
MkClient(pid, minor, id, engs) ==
    [pid |-> pid, drm_minor |-> minor, client_id |-> id,
     mem_info |-> <<[smem_rss |-> 512, smem_used |-> 2048,
                     vram_rss |-> 0, vram_used |-> 0]>>,
     eng_stats |-> [en \in engs |-> <<425>>],
     cpu_usage |-> <<425>>]

\* Client lists of d0: the selected client (with or without engines) or none,
\* among neighbours that share its pid or its client id; identity keys are
\* unique within a list.
RECURSIVE Concat(_)
Concat(ss) == IF Len(ss) = 0 THEN <<>> ELSE Head(ss) \o Concat(Tail(ss))

Reverse(q) == [i \in 1..Len(q) |-> q[Len(q) + 1 - i]]

ClientLists ==
    LET own   == {<<>>, <<MkClient(1, 0, 1, {})>>, <<MkClient(1, 0, 1, {"rcs"})>>}
        samePid == {<<>>, <<MkClient(1, 0, 2, {"rcs"})>>}
        sameId  == {<<>>, <<MkClient(1, 1, 1, {"rcs"})>>}
        fwd   == {Concat(<<a, b, c>>) : a \in own, b \in samePid, c \in sameId}
    IN  fwd \cup {Reverse(l) : l \in fwd}

\* Device d1 always lists a client with the selected pid, minor and client id.
OtherDevice == [clis_stats |-> <<MkClient(1, 0, 1, {})>>]

\* The snapshots AppData::refresh may leave: d0 with any list, or without d0.
Snapshots ==
    {[d \in {"d0", "d1"} |-> IF d = "d0" THEN [clis_stats |-> l] ELSE OtherDevice] :
        l \in ClientLists}
    \cup {[d \in {"d1"} |-> OtherDevice]}

\* The selected client's engine mapping is empty in this snapshot.
SelEnginesEmpty(data) ==
    /\ "d0" \in DOMAIN data
    /\ \E i \in 1..Len(data["d0"].clis_stats) :
            /\ ClientMatches(data["d0"].clis_stats[i], SelectedClient)
            /\ DOMAIN data["d0"].clis_stats[i].eng_stats = {}

ClientInit ==
    /\ tstamps = <<1500>>
    /\ cli = ZeroClient
    /\ datasets = NoChart
    /\ x_axis = NoAxis
    /\ sel = SelectedClient
    /\ stats_state = ClientStatsState_new
    /\ model_data \in Snapshots
    /\ screen = NoScreen
    /\ keys_since = <<>>
    /\ resolved = NoCategory
    /\ eng_always = ~SelEnginesEmpty(model_data)
    /\ key_run = NoKeys
    /\ IdleTabs
    /\ IdleLoop
    /\ IdleList

Alive == screen.what # "panic"

\* AppData::refresh: the next snapshot.
ClientRefresh ==
    /\ Alive
    /\ model_data' \in Snapshots
    /\ eng_always' = (eng_always /\ ~SelEnginesEmpty(model_data'))
    /\ UNCHANGED <<tstamps, cli, datasets, x_axis, sel, stats_state, screen, keys_since,
                   resolved, key_run, tabVars, loopVars, listVars>>

\* DrmClientScreen::draw.
ClientDraw ==
    /\ Alive
    /\ LET r == Draw(sel, stats_state, model_data, tstamps, args)
       IN  /\ stats_state' = r.stats_state
           /\ screen' = [what |-> r.what, client |-> r.client,
                         category |-> IF r.what = "charts" THEN r.stats_state.sel
                                      ELSE NoCategory]
           /\ datasets' = r.datasets
           /\ x_axis' = r.x_axis
           /\ IF r.what = "charts"
              THEN resolved' = r.stats_state.sel /\ keys_since' = <<>>
              ELSE UNCHANGED <<resolved, keys_since>>
    /\ UNCHANGED <<tstamps, cli, sel, model_data, eng_always, key_run, tabVars, loopVars, listVars>>

\* The category keys pressed so far: a run of one key is counted up to
\* MaxKeys presses, anything else is no longer tracked.
NextRun(run, op) ==
    IF run.op \in {"none", op} /\ run.n < MaxKeys
    THEN [op |-> op, n |-> run.n + 1]
    ELSE [op |-> "untracked", n |-> 0]

NextSince(since, op) == IF Len(since) = 0 THEN <<op>> ELSE <<"many">>

\* DrmClientScreen::handle_key_event on a category key.
ClientKey(key, op) ==
    /\ Alive
    /\ stats_state' = HandleKey(stats_state, key)
    /\ key_run' = NextRun(key_run, op)
    /\ keys_since' = NextSince(keys_since, op)
    /\ UNCHANGED <<tstamps, cli, datasets, x_axis, sel, model_data, screen, resolved,
                   eng_always, tabVars, loopVars, listVars>>

ClientKeyNext == \E key \in {">", "."} : ClientKey(key, "next")

ClientKeyPrevious == \E key \in {"<", ","} : ClientKey(key, "prev")

\* DrmClientScreen::handle_key_event on a key that is no category key.
ClientKeyOther ==
    /\ Alive
    /\ \E key \in {"Right", "Left", "x"} :
            stats_state' = HandleKey(stats_state, key)
    /\ UNCHANGED <<tstamps, cli, datasets, x_axis, sel, model_data, screen, keys_since,
                   resolved, eng_always, key_run, tabVars, loopVars, listVars>>

ClientNext ==
    \/ ClientRefresh
    \/ ClientDraw
    \/ ClientKeyNext
    \/ ClientKeyPrevious
    \/ ClientKeyOther

SpecClient == ClientInit /\ [][ClientNext]_vars

\* The clients of the selected device's current list that carry the captured
\* (pid, minor, client id); empty when the device itself is absent.
LiveMatches ==
    IF sel.pci_dev \in DOMAIN model_data
    THEN LET l == model_data[sel.pci_dev].clis_stats
         IN  {l[i] : i \in {j \in 1..Len(l) :
                                /\ l[j].pid = sel.pid
                                /\ l[j].drm_minor = sel.drm_minor
                                /\ l[j].client_id = sel.client_id}}
    ELSE {}

DevicePresent == sel.pci_dev \in DOMAIN model_data

\* The selected client is in the list and its engine mapping is empty.
FoundWithoutEngines ==
    /\ LiveMatches # {}
    /\ \A c \in LiveMatches : DOMAIN c.eng_stats = {}

\* C4: for a selected client whose engine mapping is empty, the category left
\* by a draw that finds the client is never Engines, whatever keys came
\* before; and with one draw after each key press, a next (or a previous)
\* press takes MemInfo to Cpu and Cpu to MemInfo: period 2.
C4_EmptySkipsEngines ==
    [][ (ClientDraw /\ FoundWithoutEngines) =>
            /\ stats_state'.sel # CLIENT_STATS_ENGINES
            /\ screen'.category = stats_state'.sel
            /\ (/\ keys_since \in {<<"next">>, <<"prev">>}
                /\ resolved \in {CLIENT_STATS_MEMINFO, CLIENT_STATS_CPU})
               => stats_state'.sel =
                     (IF resolved = CLIENT_STATS_MEMINFO
                      THEN CLIENT_STATS_CPU ELSE CLIENT_STATS_MEMINFO) ]_vars

\* C4 witness: from MemInfo, one next press and one draw of a client without
\* engines: the draw has moved past Engines to Cpu.
C4_Witness ==
    /\ screen.what = "charts"
    /\ DOMAIN screen.client.eng_stats = {}
    /\ key_run = [op |-> "next", n |-> 1]
    /\ keys_since = <<>>
    /\ stats_state = [sel |-> CLIENT_STATS_CPU, last_op |-> CLIENT_STATS_OP_NEXT]

\* The 3-state cycle in the order next walks it.
CategoryCycle == <<CLIENT_STATS_MEMINFO, CLIENT_STATS_ENGINES, CLIENT_STATS_CPU>>

\* C5: while the selected client's engine mapping has never been empty, n
\* next presses from the initial MemInfo leave the n-th state of MemInfo,
\* Engines, Cpu, MemInfo, ... (period 3), and n previous presses the n-th
\* state of the reverse cycle, however draws are interleaved.
C5_Period3 ==
    eng_always =>
        /\ key_run.op = "none" => stats_state.sel = CLIENT_STATS_MEMINFO
        /\ key_run.op = "next" =>
                stats_state.sel = CategoryCycle[(key_run.n % 3) + 1]
        /\ key_run.op = "prev" =>
                stats_state.sel = CategoryCycle[((3 - (key_run.n % 3)) % 3) + 1]

\* C5 witness: three next presses on a client with engines, drawn, are back
\* at MemInfo.
C5_Witness ==
    /\ eng_always
    /\ key_run = [op |-> "next", n |-> 3]
    /\ screen.what = "charts"
    /\ DOMAIN screen.client.eng_stats # {}
    /\ screen.category = CLIENT_STATS_MEMINFO
    /\ stats_state.sel = CLIENT_STATS_MEMINFO

\* C9: a draw on a present device renders the one live client that carries
\* the captured tuple when there is one, and the notice when there is none;
\* and no step (draw, key press, snapshot change) alters the stored selection.
C9_IdentityLookup ==
    [][ /\ sel' = sel
        /\ (ClientDraw /\ DevicePresent) =>
              IF LiveMatches # {}
              THEN /\ Cardinality(LiveMatches) = 1
                   /\ screen'.what = "charts"
                   /\ screen'.client \in LiveMatches
              ELSE /\ screen'.what = "notice"
                   /\ stats_state' = stats_state ]_vars

\* C9 witness: the notice is on screen for the captured selection while the
\* device lists two other clients, one with the same pid.
C9_Witness ==
    /\ screen.what = "notice"
    /\ sel = SelectedClient
    /\ DevicePresent
    /\ LiveMatches = {}
    /\ Len(model_data[sel.pci_dev].clis_stats) = 2

\* C10: a draw with the selected device or the selected client absent from
\* the snapshot completes by rendering the notice: no panic, no error, and
\* the selection is not reassigned.
C10_AbsenceIsSoft ==
    [][ (ClientDraw /\ (~DevicePresent \/ LiveMatches = {})) =>
            /\ screen'.what = "notice"
            /\ sel' = sel ]_vars

\* C16: a draw that starts in Engines and finds the client with an empty
\* engine mapping repeats the last direction once: it leaves Cpu when the
\* last direction was next and MemInfo when it was previous, and the last
\* direction is the same after the draw as before.
C16_RepeatsLastDirection ==
    [][ (ClientDraw /\ stats_state.sel = CLIENT_STATS_ENGINES /\ FoundWithoutEngines) =>
            /\ stats_state'.sel =
                  (IF stats_state.last_op = CLIENT_STATS_OP_NEXT
                   THEN CLIENT_STATS_CPU ELSE CLIENT_STATS_MEMINFO)
            /\ stats_state'.last_op = stats_state.last_op
            /\ screen'.category = stats_state'.sel ]_vars

\* C16 witness: two previous presses from MemInfo reach Engines; the draw of
\* a client without engines has moved on to MemInfo, the direction is still
\* previous.
C16_Witness ==
    /\ screen.what = "charts"
    /\ DOMAIN screen.client.eng_stats = {}
    /\ key_run = [op |-> "prev", n |-> 2]
    /\ keys_since = <<>>
    /\ stats_state = [sel |-> CLIENT_STATS_MEMINFO, last_op |-> CLIENT_STATS_OP_PREV]

\* The selected client is in the list with a non-empty engine mapping.
FoundWithEngines ==
    /\ LiveMatches # {}
    /\ \A c \in LiveMatches : DOMAIN c.eng_stats # {}

\* The previous draw found the client, no category key was handled since,
\* and the client's set of engines is the one that draw saw.
SameAsLastDraw ==
    /\ screen.what = "charts"
    /\ keys_since = <<>>
    /\ LiveMatches # {}
    /\ \A c \in LiveMatches : DOMAIN c.eng_stats = DOMAIN screen.client.eng_stats

\* C17: a draw that starts in MemInfo or Cpu, or in Engines with a non-empty
\* engine mapping, leaves the category and the last direction as they were;
\* so a draw that follows a draw, with no category key and no change of the
\* engine set between them, resolves to the same category.
C17_DrawIsIdempotent ==
    [][ /\ (/\ ClientDraw
            /\ \/ stats_state.sel \in {CLIENT_STATS_MEMINFO, CLIENT_STATS_CPU}
               \/ stats_state.sel = CLIENT_STATS_ENGINES /\ FoundWithEngines)
           => stats_state' = stats_state
        /\ (ClientDraw /\ SameAsLastDraw) =>
              /\ stats_state' = stats_state
              /\ screen'.what = "charts"
              /\ screen'.category = screen.category ]_vars

\* C17 witness: one next press from MemInfo, then the draw of a client with
\* engines: Engines is on screen and is still the stored category.
C17_Witness ==
    /\ screen.what = "charts"
    /\ DOMAIN screen.client.eng_stats # {}
    /\ screen.category = CLIENT_STATS_ENGINES
    /\ key_run = [op |-> "next", n |-> 1]
    /\ keys_since = <<>>
    /\ stats_state = [sel |-> CLIENT_STATS_ENGINES, last_op |-> CLIENT_STATS_OP_NEXT]

\* C18: whenever exactly one next or previous press was handled between two
\* consecutive draws that find the client, the second draw resolves to a
\* category other than the first one's, whatever the engine set did between.
C18_NeverStuck ==
    [][ (/\ ClientDraw
         /\ LiveMatches # {}
         /\ resolved # NoCategory
         /\ keys_since \in {<<"next">>, <<"prev">>})
        => /\ screen'.what = "charts"
           /\ screen'.category # resolved
           /\ stats_state'.sel # resolved ]_vars

\* C18 witness: a client without engines, two next presses with a draw after
\* each: MemInfo, Cpu (past Engines), MemInfo.
C18_Witness ==
    /\ screen.what = "charts"
    /\ DOMAIN screen.client.eng_stats = {}
    /\ key_run = [op |-> "next", n |-> 2]
    /\ keys_since = <<>>
    /\ resolved = CLIENT_STATS_MEMINFO
    /\ stats_state = [sel |-> CLIENT_STATS_MEMINFO, last_op |-> CLIENT_STATS_OP_NEXT]

\* ========================================================================
\* Device tab selector and QmApp's draw and key handling: qmapp.rs
\* ========================================================================

\* usize arithmetic.  A remainder by zero panics in every build; a
\* subtraction below zero panics (debug build) or wraps to an index beyond
\* any list (release build).  Both are ArithFault, a value no index has.
ArithFault == 0 - 1
RemUsize(a, b) == IF b = 0 THEN ArithFault ELSE a % b
SubUsize(a, b) == IF a < b THEN ArithFault ELSE a - b

\* QmDevicesTabState::new, lines 35-41.
TabNew(devs) == [devs |-> devs, sel |-> 0]

\* QmDevicesTabState::next, lines 43-50 (variants: the index stops at the
\* last device; the empty list is not guarded).
TabNext_Clamped(ts) ==
    IF Len(ts.devs) = 0 THEN ts
    ELSE [ts EXCEPT !.sel = IF ts.sel + 1 < Len(ts.devs) THEN ts.sel + 1 ELSE ts.sel]

TabNext_NoGuard(ts) ==
    [ts EXCEPT !.sel = RemUsize(ts.sel + 1, Len(ts.devs))]

TabNext(ts) ==
    IF Len(ts.devs) = 0 THEN ts
    ELSE [ts EXCEPT !.sel = RemUsize(ts.sel + 1, Len(ts.devs))]

\* QmDevicesTabState::previous, lines 52-63 (variant: index 0 stays 0).
TabPrevious_StuckAtZero(ts) ==
    IF Len(ts.devs) = 0 THEN ts
    ELSE IF ts.sel > 0 THEN [ts EXCEPT !.sel = SubUsize(ts.sel, 1)]
    ELSE [ts EXCEPT !.sel = 0]

TabPrevious(ts) ==
    IF Len(ts.devs) = 0 THEN ts
    ELSE IF ts.sel > 0 THEN [ts EXCEPT !.sel = SubUsize(ts.sel, 1)]
    ELSE [ts EXCEPT !.sel = SubUsize(Len(ts.devs), 1)]

\* QmApp::draw, lines 498-511: the tab state is built on the first draw, from
\* the device-slot filter when set, else from the enumerated devices
\* (variant: it is built again on every draw).
TabInit_EveryDraw(tab, a, devs) ==
    <<TabNew(IF Len(a.dev_slot) > 0 THEN <<a.dev_slot[1]>> ELSE devs)>>

TabInit(tab, a, devs) ==
    IF Len(tab) = 0
    THEN <<TabNew(IF Len(a.dev_slot) > 0 THEN <<a.dev_slot[1]>> ELSE devs)>>
    ELSE tab

\* self.data.get_device(dn) is Some.
HasDevice(devs, dn) == \E i \in 1..Len(devs) : devs[i] = dn

\* QmApp::draw, lines 546-564: what the main area shows.
\*   no_devices - "No DRM GPU devices"
\*   device     - the tabs and the selected device
\*   no_device  - "No DRM GPU device at PCI slot"
\*   panic      - devs[sel] out of range
Shown(tab, devs) ==
    LET devs_ts == tab[1]
    IN  IF Len(devs_ts.devs) = 0 THEN [what |-> "no_devices", dev |-> ""]
        ELSE IF devs_ts.sel \notin 0..(Len(devs_ts.devs) - 1)
             THEN [what |-> "panic", dev |-> ""]
        ELSE LET dn == devs_ts.devs[devs_ts.sel + 1]
             IN  IF HasDevice(devs, dn) THEN [what |-> "device", dev |-> dn]
                 ELSE [what |-> "no_device", dev |-> dn]

\* QmApp::draw, lines 496-565.
AppDraw(tab, a, devs) ==
    LET tab2 == TabInit(tab, a, devs)
    IN  [tab_state |-> tab2, shown |-> Shown(tab2, devs)]

\* QmApp::handle_key_event, lines 567-600, on [tab_state, exit].  The arrow
\* keys scroll the client list only; any other key does nothing.
AppHandleKey(app, key) ==
    CASE key \in {"q", "Q"} -> [app EXCEPT !.exit = TRUE]
      [] key = "Tab" ->
            IF Len(app.tab_state) > 0
            THEN [app EXCEPT !.tab_state = <<TabNext(app.tab_state[1])>>]
            ELSE app
      [] key = "BackTab" ->
            IF Len(app.tab_state) > 0
            THEN [app EXCEPT !.tab_state = <<TabPrevious(app.tab_state[1])>>]
            ELSE app
      [] OTHER -> app

\* ------------------------------------------------------------------------
\* SpecTabs: draws, Tab/BackTab presses and snapshot changes in any order
\* ------------------------------------------------------------------------

\* PCI slots, in enumeration order.
DevNames == <<"00:02.0", "03:00.0", "04:00.0", "05:00.0", "06:00.0">>

\* Device lists of at most MaxDevs devices: the devices among the first
\* MaxDevs slots that exist, in order.
RECURSIVE Pick(_, _)
Pick(names, keep) ==
    IF Len(names) = 0 THEN <<>>
    ELSE (IF Head(names) \in keep THEN <<Head(names)>> ELSE <<>>)
            \o Pick(Tail(names), keep)

DeviceLists ==
    {Pick(SubSeq(DevNames, 1, MaxDevs), keep) :
        keep \in SUBSET {DevNames[i] : i \in 1..MaxDevs}}

\* The --dev-slot argument: none, a slot that may exist, a slot that never does.
DevSlots == {<<>>, <<"03:00.0">>, <<"ff:00.0">>}

NoShown == [what |-> "none", dev |-> ""]

TabsInit ==
    /\ IdleChart
    /\ IdleClient
    /\ tab_state = <<>>
    /\ tab_ops = <<>>
    /\ exit = FALSE
    /\ pc = "idle"
    /\ nr = 0
    /\ json_file = <<>>
    /\ ticks = <<>>
    /\ appended = <<>>
    /\ args \in {[NoArgs EXCEPT !.dev_slot = ds, !.nr_iterations = 0 - 1] :
                    ds \in DevSlots}
    /\ devices \in DeviceLists
    /\ shown = NoShown
    /\ trace = NoTrace
    /\ clock = NoClock
    /\ IdleList

\* AppData::refresh: the devices of the next snapshot.
TabsRefresh ==
    /\ devices' \in DeviceLists
    /\ UNCHANGED <<chartVars, listVars, clientVars, tabVars, exit, pc, nr, json_file, ticks,
                   appended, args, trace, clock, shown>>

\* QmApp::draw.
TabsDraw ==
    /\ LET r == AppDraw(tab_state, args, devices)
       IN  /\ tab_state' = r.tab_state
           /\ shown' = r.shown
    /\ UNCHANGED <<chartVars, listVars, clientVars, tab_ops, exit, pc, nr, json_file, ticks,
                   appended, args, trace, clock, devices>>

\* The record of the latest presses: the key and the index it found, the
\* oldest dropped beyond MaxDevs entries.
Remember(ops, key, before) ==
    LET all == Append(ops, [key |-> key, before |-> before])
    IN  IF Len(all) > MaxDevs THEN Tail(all) ELSE all

\* QmApp::handle_key_event on Tab or BackTab.
TabsKey(key) ==
    /\ LET app == AppHandleKey([tab_state |-> tab_state, exit |-> exit], key)
       IN  /\ tab_state' = app.tab_state
           /\ exit' = app.exit
    /\ tab_ops' = IF Len(tab_state) > 0
                  THEN Remember(tab_ops, key, tab_state[1].sel)
                  ELSE tab_ops
    /\ UNCHANGED <<chartVars, listVars, clientVars, pc, nr, json_file, ticks, appended, args, trace, clock,
                   devices, shown>>

TabsKeyTab == TabsKey("Tab")

TabsKeyBackTab == TabsKey("BackTab")

TabsNext ==
    \/ TabsRefresh
    \/ TabsDraw
    \/ TabsKeyTab
    \/ TabsKeyBackTab

SpecTabs == TabsInit /\ [][TabsNext]_vars

\* The device list of the tab state; K is its length.
TabDevs == IF Len(tab_state) > 0 THEN tab_state[1].devs ELSE <<>>
TabSel == IF Len(tab_state) > 0 THEN tab_state[1].sel ELSE 0

\* The latest n presses were all `key`.
LastAre(n, key) ==
    /\ n >= 1
    /\ Len(tab_ops) >= n
    /\ \A i \in (Len(tab_ops) - n + 1)..Len(tab_ops) : tab_ops[i].key = key

\* C6: on a list of K >= 1 devices, K next presses in a row bring the
\* selected index back to the value it had before the first of them, and so
\* do K previous presses, from every starting index.
C6_FullCycle ==
    LET K == Len(TabDevs)
    IN  (K >= 1) =>
            \A key \in {"Tab", "BackTab"} :
                LastAre(K, key) => TabSel = tab_ops[Len(tab_ops) - K + 1].before

\* C6 witness: MaxDevs devices, MaxDevs next presses started at index 1, and
\* the index is 1 again.
C6_Witness ==
    /\ Len(TabDevs) = MaxDevs
    /\ LastAre(MaxDevs, "Tab")
    /\ tab_ops[1].before = 1
    /\ TabSel = 1

\* C7: on a non-empty list, next followed by previous leaves the selected
\* index where it was, and so does previous followed by next, at the ends 0
\* and K-1 as well.
C7_NextPreviousIdentity ==
    LET n == Len(tab_ops)
    IN  (Len(TabDevs) >= 1 /\ n >= 2 /\ tab_ops[n - 1].key # tab_ops[n].key) =>
            /\ TabSel = tab_ops[n - 1].before
            /\ TabSel < Len(TabDevs)

\* C7 witness: previous then next from index 0 of a list of several devices:
\* through K-1 and back to 0.
C7_Witness ==
    LET n == Len(tab_ops)
    IN  /\ Len(TabDevs) >= 2
        /\ n >= 2
        /\ tab_ops[n - 1] = [key |-> "BackTab", before |-> 0]
        /\ tab_ops[n] = [key |-> "Tab", before |-> Len(TabDevs) - 1]
        /\ TabSel = 0

\* C8: with an empty device list, Tab and BackTab change nothing: the index
\* is 0 before and after every press, so no remainder by zero was taken and
\* no subtraction wrapped.
C8_EmptyListNoOp ==
    (Len(tab_state) > 0 /\ Len(TabDevs) = 0) =>
        /\ TabSel = 0
        /\ \A i \in 1..Len(tab_ops) : tab_ops[i].before = 0

\* C8 witness: an empty list on which both keys have been pressed.
C8_Witness ==
    /\ Len(tab_state) > 0
    /\ Len(TabDevs) = 0
    /\ \E i, j \in 1..Len(tab_ops) :
            tab_ops[i].key = "Tab" /\ tab_ops[j].key = "BackTab"
    /\ TabSel = 0
    /\ shown.what = "no_devices"

\* C22: the tab state is created once, by the first draw, from the
\* device-slot filter when set and else from the enumerated devices; its
\* device list never changes afterwards; and whenever the list is not empty
\* the selected index is at least 0 and below the list's length, so that
\* no draw indexes the list out of range, whatever Tab and BackTab presses,
\* draws and snapshot changes came before.
C22_TabStateOnce ==
    [][ /\ (Len(tab_state) = 0 /\ Len(tab_state') > 0) =>
              /\ TabsDraw
              /\ tab_state'[1].sel = 0
              /\ tab_state'[1].devs = (IF Len(args.dev_slot) > 0
                                       THEN <<args.dev_slot[1]>> ELSE devices)
        /\ TabsDraw => Len(tab_state') > 0
        /\ Len(tab_state) > 0 =>
              /\ Len(tab_state') > 0
              /\ tab_state'[1].devs = tab_state[1].devs
        /\ (Len(tab_state') > 0 /\ Len(tab_state'[1].devs) > 0) =>
              /\ tab_state'[1].sel >= 0
              /\ tab_state'[1].sel < Len(tab_state'[1].devs)
        /\ shown'.what # "panic" ]_vars

\* C22 witness: the tab state holds the MaxDevs devices of the first draw, a
\* BackTab at index 0 has selected the last of them, the snapshot now lists
\* other devices, and the draw has looked the selected one up.
C22_Witness ==
    /\ Len(tab_state) > 0
    /\ Len(TabDevs) = MaxDevs
    /\ devices # TabDevs
    /\ \E i \in 1..Len(tab_ops) : tab_ops[i] = [key |-> "BackTab", before |-> 0]
    /\ TabSel = MaxDevs - 1
    /\ shown = [what |-> "no_device", dev |-> TabDevs[MaxDevs]]

\* ========================================================================
\* The poll-render-input loop and its JSON sink: QmApp::do_run, qmapp.rs
\* ========================================================================

\* A file: its bytes and the position of the next write.  Bytes are kept as
\* one-character strings; a snapshot's text is kept as "{", its tick number
\* in digits, "}".
NewFile == [bytes |-> <<>>, pos |-> 0]

\* Write::write_all at the file's position: overwrites, then extends.
WriteAt(f, data) ==
    LET end == f.pos + Len(data)
        len == Max(Len(f.bytes), end)
    IN  [bytes |-> [i \in 1..len |->
                        IF i > f.pos /\ i <= end THEN data[i - f.pos] ELSE f.bytes[i]],
         pos |-> end]

\* Seek::seek(SeekFrom::End(off)).
SeekEnd(f, off) == [f EXCEPT !.pos = Len(f.bytes) + off]

\* writeln!(f, "[\n]"), line 627: the empty array.
ArrayMarker == <<"[", "\n", "]", "\n">>

\* writeln!(jf, ","), line 642.
CommaLine == <<",", "\n">>

\* writeln!(jf, "\n]"), line 645.
ArrayClose == <<"\n", "]", "\n">>

\* serde_json::to_writer_pretty(jf, self.data.state()), line 644: the text
\* of the snapshot of tick k.
Serialize(k) == <<"{", ToString(k), "}">>

\* `if nr >= 1`, line 641: a comma goes before every element but the first
\* (variant: before every element).
NeedsComma_Always(n) == TRUE

NeedsComma(n) == n >= 1

\* ------------------------------------------------------------------------
\* Reading the file back: a JSON array of objects
\* ------------------------------------------------------------------------
IsSpace(b) == b = "\n"

NoSpace(bytes) == SelectSeq(bytes, LAMBDA b : ~IsSpace(b))

\* The elements of `toks` (from index i on) as `e, e, ... ]`, each e being
\* "{" body "}": [ok, elems].
RECURSIVE ParseElems(_, _, _)
ParseElems(toks, i, acc) ==
    IF i + 2 <= Len(toks) /\ toks[i] = "{" /\ toks[i + 2] = "}"
          /\ toks[i + 1] \notin {"[", "]", "{", "}", ","}
    THEN LET acc2 == Append(acc, toks[i + 1])
         IN  IF i + 3 = Len(toks) /\ toks[i + 3] = "]"
             THEN [ok |-> TRUE, elems |-> acc2]
             ELSE IF i + 3 < Len(toks) /\ toks[i + 3] = ","
             THEN ParseElems(toks, i + 4, acc2)
             ELSE [ok |-> FALSE, elems |-> <<>>]
    ELSE [ok |-> FALSE, elems |-> <<>>]

\* The file's bytes as one JSON array: [ok, elems].
ParseArray(bytes) ==
    LET toks == NoSpace(bytes)
    IN  IF Len(toks) >= 2 /\ toks[1] = "["
        THEN IF Len(toks) = 2 /\ toks[2] = "]"
             THEN [ok |-> TRUE, elems |-> <<>>]
             ELSE ParseElems(toks, 2, <<>>)
        ELSE [ok |-> FALSE, elems |-> <<>>]

\* ------------------------------------------------------------------------
\* Spec: do_run, one action per step of the loop
\* ------------------------------------------------------------------------
LoopDeviceLists == {SubSeq(DevNames, 1, n) : n \in 0..2}

Budgets == {0 - 1} \cup 0..MaxIter

\* --ms-interval of the loop's runs.
IvalMs == 2

LoopInit ==
    /\ IdleChart
    /\ IdleClient
    /\ tab_state = <<>>
    /\ tab_ops = <<>>
    /\ exit = FALSE
    /\ pc = "start"
    /\ nr = 0
    /\ json_file = <<>>
    /\ ticks = <<>>
    /\ appended = <<>>
    /\ args \in {[NoArgs EXCEPT !.dev_slot = ds, !.to_json = tj,
                                 !.nr_iterations = b, !.ms_interval = IvalMs] :
                    ds \in {<<>>, <<"ff:00.0">>}, tj \in BOOLEAN, b \in Budgets}
    /\ devices \in LoopDeviceLists
    /\ shown = NoShown
    /\ trace = NoTrace
    /\ clock = NoClock
    /\ IdleList

\* Lines 623-629: File::create when a sink is configured.
LoopStart ==
    /\ pc = "start"
    /\ IF args.to_json
       THEN json_file' = <<NewFile>> /\ pc' = "marker"
       ELSE json_file' = json_file /\ pc' = "top"
    /\ UNCHANGED <<chartVars, listVars, clientVars, tabVars, exit, nr, ticks, appended, args, trace, clock,
                   devices, shown>>

\* Line 627: the empty array is written.
WriteMarker ==
    /\ pc = "marker"
    /\ json_file' = <<WriteAt(json_file[1], ArrayMarker)>>
    /\ pc' = "top"
    /\ UNCHANGED <<chartVars, listVars, clientVars, tabVars, exit, nr, ticks, appended, args, trace, clock,
                   devices, shown>>

\* Lines 631-635: the loop condition and the iteration budget (variants:
\* the budget is met one iteration late; the exit flag is not looked at).
LoopTop_OneMore ==
    /\ pc = "top"
    /\ IF exit
       THEN pc' = "done" /\ exit' = exit
       ELSE IF args.nr_iterations >= 0 /\ nr = args.nr_iterations + 1
            THEN pc' = "done" /\ exit' = TRUE
            ELSE pc' = "refresh" /\ exit' = exit
    /\ UNCHANGED <<chartVars, listVars, clientVars, tabVars, nr, json_file, ticks, appended,
                   args, trace, clock, devices, shown>>

LoopTop_IgnoresExit ==
    /\ pc = "top"
    /\ IF args.nr_iterations >= 0 /\ nr = args.nr_iterations
       THEN pc' = "done" /\ exit' = TRUE
       ELSE pc' = "refresh" /\ exit' = exit
    /\ UNCHANGED <<chartVars, listVars, clientVars, tabVars, nr, json_file, ticks, appended,
                   args, trace, clock, devices, shown>>

LoopTop ==
    /\ pc = "top"
    /\ IF exit
       THEN pc' = "done" /\ exit' = exit
       ELSE IF args.nr_iterations >= 0 /\ nr = args.nr_iterations
            THEN pc' = "done" /\ exit' = TRUE
            ELSE pc' = "refresh" /\ exit' = exit
    /\ UNCHANGED <<chartVars, listVars, clientVars, tabVars, nr, json_file, ticks, appended,
                   args, trace, clock, devices, shown>>

\* Line 637: self.data.refresh() succeeds: tick nr+1 is the current snapshot.
Refresh ==
    /\ pc = "refresh"
    /\ Len(ticks) < MaxIter
    /\ ticks' = Append(ticks, Len(ticks) + 1)
    /\ devices' \in LoopDeviceLists
    /\ pc' = IF Len(json_file) > 0 THEN "seek" ELSE "draw"
    /\ clock' = [since |-> 0,
                 gap   |-> IF Len(ticks) = 0 THEN <<>> ELSE <<clock.since>>]
    /\ UNCHANGED <<chartVars, listVars, clientVars, tabVars, exit, nr, json_file, appended,
                   args, trace, shown>>

\* Line 640: jf.seek(SeekFrom::End(-2)).
SinkSeek ==
    /\ pc = "seek"
    /\ json_file' = <<SeekEnd(json_file[1], 0 - 2)>>
    /\ pc' = IF NeedsComma(nr) THEN "comma" ELSE "elem"
    /\ UNCHANGED <<chartVars, listVars, clientVars, tabVars, exit, nr, ticks, appended, args, trace, clock,
                   devices, shown>>

\* Lines 641-643: the separating comma.
SinkComma ==
    /\ pc = "comma"
    /\ json_file' = <<WriteAt(json_file[1], CommaLine)>>
    /\ pc' = "elem"
    /\ UNCHANGED <<chartVars, listVars, clientVars, tabVars, exit, nr, ticks, appended, args, trace, clock,
                   devices, shown>>

\* Line 644: the current snapshot.
SinkElem ==
    /\ pc = "elem"
    /\ json_file' = <<WriteAt(json_file[1], Serialize(ticks[Len(ticks)]))>>
    /\ pc' = "close"
    /\ UNCHANGED <<chartVars, listVars, clientVars, tabVars, exit, nr, ticks, appended, args, trace, clock,
                   devices, shown>>

\* Line 645: the array is closed again; the append is complete.
SinkClose ==
    /\ pc = "close"
    /\ json_file' = <<WriteAt(json_file[1], ArrayClose)>>
    /\ appended' = Append(appended, ticks[Len(ticks)])
    /\ pc' = "draw"
    /\ UNCHANGED <<chartVars, listVars, clientVars, tabVars, exit, nr, ticks, args, trace, clock, devices, shown>>

\* Line 648: terminal.draw(|frame| self.draw(frame)).
LoopDraw ==
    /\ pc = "draw"
    /\ LET r == AppDraw(tab_state, args, devices)
       IN  /\ tab_state' = r.tab_state
           /\ shown' = r.shown
           /\ pc' = IF r.shown.what = "panic" THEN "panicked" ELSE "events"
    /\ trace' = [trace EXCEPT !.draws = @ + 1]
    /\ UNCHANGED <<chartVars, listVars, clientVars, tab_ops, exit, nr, json_file, ticks,
                   appended, args, clock, devices>>

\* The keys of handle_key_event's arms, and one key of no arm.
Keys == {"q", "Q", "Tab", "BackTab", "Right", "Left", "Up", "Down", "x"}

\* handle_events, lines 602-615: event::poll(ival) waits until an event is
\* there or `ival` has passed.  How long the wait was, and what it ended with:
\* a timeout after the whole interval, or an event that arrived earlier.
Polls(ival) ==
    {[waited |-> ival, event |-> "none"]}
    \cup {[waited |-> w, event |-> e] : w \in 0..(ival - 1), e \in Keys \cup {"resize"}}

\* Lines 649-651: handle_events, then nr += 1.  The one event the poll
\* reported is read: a key press is handled, any other event is ignored.
\* Time passes in the poll only.
LoopEvents ==
    /\ pc = "events"
    /\ \E p \in Polls(args.ms_interval) :
            LET app == IF p.event \in Keys
                       THEN AppHandleKey([tab_state |-> tab_state, exit |-> exit], p.event)
                       ELSE [tab_state |-> tab_state, exit |-> exit]
            IN  /\ tab_state' = app.tab_state
                /\ exit' = app.exit
                /\ trace' = [trace EXCEPT !.quit = @ \/ p.event \in {"q", "Q"}]
                /\ clock' = [clock EXCEPT !.since = @ + p.waited]
    /\ nr' = nr + 1
    /\ pc' = "top"
    /\ UNCHANGED <<chartVars, listVars, clientVars, tab_ops, json_file, ticks, appended, args,
                   devices, shown>>

\* A `?` of do_run returns the error: File::create, a write or seek on the
\* sink, data.refresh(), terminal.draw, event::poll or event::read failed
\* (variant: a failed refresh is ignored and the iteration goes on to draw).
LoopFail_Continues ==
    /\ pc \in {"marker", "refresh", "seek", "comma", "elem", "close", "draw", "events"}
       \/ (pc = "start" /\ args.to_json)
    /\ pc' = IF pc = "refresh" THEN "draw" ELSE "failed"
    /\ trace' = [trace EXCEPT !.failed_at = pc]
    /\ UNCHANGED <<chartVars, listVars, clientVars, tabVars, exit, nr, json_file, ticks, appended,
                   args, clock, devices, shown>>

LoopFail ==
    /\ pc \in {"marker", "refresh", "seek", "comma", "elem", "close", "draw", "events"}
       \/ (pc = "start" /\ args.to_json)
    /\ pc' = "failed"
    /\ trace' = [trace EXCEPT !.failed_at = pc]
    /\ UNCHANGED <<chartVars, listVars, clientVars, tabVars, exit, nr, json_file, ticks, appended,
                   args, clock, devices, shown>>

Next ==
    \/ LoopStart
    \/ WriteMarker
    \/ LoopTop
    \/ Refresh
    \/ SinkSeek
    \/ SinkComma
    \/ SinkElem
    \/ SinkClose
    \/ LoopDraw
    \/ LoopEvents
    \/ LoopFail

Spec == LoopInit /\ [][Next]_vars

\* The texts of the snapshots whose append has completed, in tick order.
AppendedTexts == [k \in 1..Len(appended) |-> ToString(appended[k])]

\* The number of bytes equal to b.
Count(bytes, b) == Len(SelectSeq(bytes, LAMBDA x : x = b))

\* C2: once the sink is open and n >= 1 iterations have completed their
\* append (none being under way), the file is one complete JSON array of
\* exactly n elements, the k-th the snapshot of tick k, with a comma before
\* every element but the first: n-1 commas.
C2_SinkIsArray ==
    (Len(json_file) > 0 /\ Len(appended) >= 1 /\ Len(appended) = Len(ticks)) =>
        LET parsed == ParseArray(json_file[1].bytes)
        IN  /\ parsed.ok
            /\ Len(parsed.elems) = Len(appended)
            /\ \A k \in 1..Len(appended) : parsed.elems[k] = ToString(k)
            /\ appended = [k \in 1..Len(appended) |-> k]
            /\ Count(json_file[1].bytes, ",") = Len(appended) - 1

\* C2 witness: the loop has ended after MaxIter appends.
C2_Witness ==
    /\ pc = "done"
    /\ Len(json_file) > 0
    /\ Len(appended) = MaxIter
    /\ ParseArray(json_file[1].bytes).elems = AppendedTexts

\* C3: at every point after the sink's first write, between the steps of an
\* append included, the file parses as a JSON array holding exactly the
\* snapshots of the ticks whose append has completed.
C3_ValidAtEveryStep ==
    (Len(json_file) > 0 /\ pc # "marker" /\ Len(json_file[1].bytes) > 0) =>
        LET parsed == ParseArray(json_file[1].bytes)
        IN  /\ parsed.ok
            /\ parsed.elems = AppendedTexts

\* The steps of the sink append, lines 640-645.
SinkSteps == {"seek", "comma", "elem", "close"}

\* C11: a failing refresh ends the loop with the error: that iteration has
\* no sink append, no draw and no input handling, the refresh is not retried
\* and no later iteration runs; a failing seek or write on the sink likewise
\* ends the loop before that iteration's draw and input handling.
C11_FailureEndsLoop ==
    [][ /\ trace.failed_at = ""
        /\ trace'.failed_at # "" =>
              /\ pc' = "failed"
              /\ UNCHANGED <<ticks, appended, json_file, nr, exit, tab_state, shown>>
              /\ trace'.draws = trace.draws
              /\ trace'.failed_at = "refresh" =>
                    /\ Len(ticks') = nr'
                    /\ Len(appended') = (IF Len(json_file') > 0 THEN nr' ELSE 0)
                    /\ trace'.draws = nr'
              /\ trace'.failed_at \in SinkSteps =>
                    /\ Len(ticks') = nr' + 1
                    /\ Len(appended') = nr'
                    /\ trace'.draws = nr' ]_vars

\* C11 witness: the refresh of the second iteration failed after one whole
\* iteration with a sink: one snapshot appended, one draw, and the loop over.
C11_Witness ==
    /\ pc = "failed"
    /\ trace.failed_at = "refresh"
    /\ nr = 1
    /\ Len(ticks) = 1
    /\ Len(appended) = 1
    /\ trace.draws = 1

\* C12: with a budget n >= 0, no quit key and no failure, the loop makes
\* exactly n refreshes and n draws and is then over (none at all for n = 0),
\* and it never makes more than n of either; with a negative budget the loop
\* is never over unless a quit key was handled.
C12_BudgetCounts ==
    /\ (args.nr_iterations >= 0 /\ pc = "done" /\ ~trace.quit) =>
            /\ exit
            /\ Len(ticks) = args.nr_iterations
            /\ trace.draws = args.nr_iterations
            /\ nr = args.nr_iterations
    /\ args.nr_iterations >= 0 =>
            /\ Len(ticks) <= args.nr_iterations
            /\ trace.draws <= args.nr_iterations
    /\ (args.nr_iterations < 0 /\ pc = "done") => trace.quit

\* C12 witness: a budget of MaxIter, no quit key: the loop is over after
\* MaxIter refreshes and draws.
C12_Witness ==
    /\ args.nr_iterations = MaxIter
    /\ pc = "done"
    /\ ~trace.quit
    /\ Len(ticks) = MaxIter
    /\ trace.draws = MaxIter

\* C13: the step that handles a quit key sets the exit flag and nothing
\* else of the application's state, at the end of an iteration whose refresh,
\* sink append and draw are complete; after it there is no refresh, no sink
\* write and no draw, and the next test at the top of the loop ends it.
C13_QuitEndsLoop ==
    [][ /\ (~trace.quit /\ trace'.quit) =>
              /\ exit'
              /\ UNCHANGED <<tab_state, json_file, ticks, appended, shown, devices>>
              /\ trace'.draws = trace.draws
              /\ Len(ticks) = nr + 1
              /\ trace.draws = nr + 1
              /\ Len(json_file) > 0 => Len(appended) = nr + 1
        /\ trace.quit =>
              /\ exit
              /\ UNCHANGED <<json_file, ticks, appended, shown, tab_state>>
              /\ trace'.draws = trace.draws
              /\ pc = "top"
              /\ pc' = "done" ]_vars

\* C13 witness: with no budget, a quit key in the second iteration: the loop
\* is over after two refreshes, two appends and two draws.
C13_Witness ==
    /\ args.nr_iterations < 0
    /\ pc = "done"
    /\ trace.quit
    /\ nr = 2
    /\ Len(ticks) = 2
    /\ Len(appended) = 2
    /\ trace.draws = 2

\* C14: the wait for input is capped at what remains of the tick interval,
\* so consecutive refreshes start one tick interval apart whether or not
\* events arrive: an event early in the wait does not bring the next refresh
\* forward.
C14_PeriodicRefresh ==
    \A i \in 1..Len(clock.gap) : clock.gap[i] = args.ms_interval

\* ========================================================================
\* The client list pane: QmApp::render_drm_clients, qmapp.rs
\* ========================================================================

\* `as u16` of a usize: the low 16 bits.
U16_RANGE == 65536
AsU16(n) == n % U16_RANGE

\* Line 343-344: the width one listed client asks for.  A client is kept as
\* [pid, comm_len, cmdline_len, is_active], the lengths being comm.len() and
\* cmdline.len() (variant: the fixed columns are left out).
ClientWidth_TextOnly(c) == AsU16(c.comm_len + c.cmdline_len + 3)

ClientWidth(c) == AsU16(80 + c.comm_len + c.cmdline_len + 3)

\* Lines 334-347: the loop over dinfo.clis_stats, as [cinfos, view_w, view_h].
RECURSIVE ScanClients(_, _, _)
ScanClients(clis, a, acc) ==
    IF Len(clis) = 0 THEN acc
    ELSE LET c == Head(clis)
         IN  ScanClients(Tail(clis), a,
                IF a.all_clients \/ c.is_active
                THEN [cinfos |-> Append(acc.cinfos, c),
                      view_w |-> Max(acc.view_w, ClientWidth(c)),
                      view_h |-> AsU16(acc.view_h + 1)]
                ELSE acc)

\* QmApp::render_drm_clients, lines 330-433: the rows drawn and the size of
\* the scroll view's content.
RenderDrmClients(d, a, area) ==
    LET r == ScanClients(d.clis_stats, a,
                         [cinfos |-> <<>>, view_w |-> area.width, view_h |-> 1])
    IN  [rows |-> r.cinfos, size |-> [width |-> r.view_w, height |-> r.view_h]]

\* ------------------------------------------------------------------------
\* SpecClis: draws of the list pane and snapshot changes in any order
\* ------------------------------------------------------------------------

\* Lengths of a process name and of a command line; a command line can be
\* longer than 16 bits count.
CommLen == 4
CmdlineLens == {20, 65500}

\* Client lists of at most MaxClis clients, the i-th with pid i.
ListedClients ==
    LET pool == [cmdline_len : CmdlineLens, is_active : BOOLEAN]
    IN  {[i \in 1..Len(q) |->
            [pid |-> i, comm_len |-> CommLen, cmdline_len |-> q[i].cmdline_len,
             is_active |-> q[i].is_active]] : q \in SeqsUpTo(pool, MaxClis)}

\* Viewports: narrower and wider than a short client line.
Areas == {[width |-> 80, height |-> 10], [width |-> 200, height |-> 10]}

ClisInit ==
    /\ IdleChart
    /\ IdleClient
    /\ IdleTabs
    /\ exit = FALSE
    /\ pc = "idle"
    /\ nr = 0
    /\ json_file = <<>>
    /\ ticks = <<>>
    /\ appended = <<>>
    /\ args \in {[NoArgs EXCEPT !.all_clients = b] : b \in BOOLEAN}
    /\ devices = <<>>
    /\ shown = [what |-> "none", dev |-> ""]
    /\ trace = NoTrace
    /\ clock = NoClock
    /\ dinfo \in {[clis_stats |-> l] : l \in ListedClients}
    /\ visible_area \in Areas
    /\ clis_view = NoView

\* AppData::refresh: the device's next client list.
ClisRefresh ==
    /\ dinfo' \in {[clis_stats |-> l] : l \in ListedClients}
    /\ UNCHANGED <<chartVars, clientVars, tabVars, loopVars, visible_area, clis_view>>

\* QmApp::render_drm_device, lines 479-484: the list pane is drawn unless the
\* device has no clients at all.
ClisDraw ==
    /\ clis_view' = IF Len(dinfo.clis_stats) = 0 THEN clis_view
                    ELSE RenderDrmClients(dinfo, args, visible_area)
    /\ UNCHANGED <<chartVars, clientVars, tabVars, loopVars, dinfo, visible_area>>

ClisNext ==
    \/ ClisRefresh
    \/ ClisDraw

SpecClis == ClisInit /\ [][ClisNext]_vars

\* The listed clients that pass the display filter, in listed order.
Displayed ==
    SelectSeq(dinfo.clis_stats, LAMBDA c : args.all_clients \/ c.is_active)

\* What a displayed client's line takes: 80 + its name + its command + 3.
LineWidth(c) == 80 + c.comm_len + c.cmdline_len + 3

\* The largest of a viewport width and the displayed clients' line widths.
WidestOf(w, q) ==
    CHOOSE m \in {w} \cup {LineWidth(q[i]) : i \in 1..Len(q)} :
        /\ m >= w
        /\ \A i \in 1..Len(q) : m >= LineWidth(q[i])

\* The list pane's size rule, for the content a draw has just built.
ListSizeRule ==
    /\ clis_view'.rows = Displayed
    /\ clis_view'.size.height = Len(Displayed) + 1
    /\ clis_view'.size.width = WidestOf(visible_area.width, Displayed)
    /\ \A i \in 1..Len(Displayed) : clis_view'.size.width >= LineWidth(Displayed[i])

\* C20: every draw of the client list shows exactly the device's clients
\* that are active or, under the show-all policy, all of them, in listed
\* order; the content height is their number plus 1 and the content width
\* the largest of the viewport width and, over the shown clients, 80 +
\* name length + command length + 3: never less than that sum for any shown
\* client, whatever the lengths.
C20_ListContentSize ==
    [][ (ClisDraw /\ Len(dinfo.clis_stats) > 0) => ListSizeRule ]_vars

\* The same statement while every displayed line width fits 16 bits.
ListSizeWithin16Bits ==
    [][ (/\ ClisDraw
         /\ Len(dinfo.clis_stats) > 0
         /\ \A i \in 1..Len(Displayed) : LineWidth(Displayed[i]) < U16_RANGE)
        => ListSizeRule ]_vars

=============================================================================
